---- MODULE Spec2Model ----
(***************************************************************************)
(* Model of qp_fastp_minimap2/qp_fastp_minimap2.py.                        *)
(*                                                                         *)
(* Python strings are sequences of atoms.  A file name, a path, a         *)
(* reference name is a sequence of one-character atoms, so that basename, *)
(* join, the `in` substring test, sorted() and the glob suffix test are   *)
(* computed on the characters.  The literal text of a template or of a    *)
(* script line is kept as one atom per literal piece; "{nprocs}",         *)
(* "{primer}", "{database}", "{out_dir}" and "%s" are the placeholders of *)
(* str.format and of the % operator, and "\n" is the newline.             *)
(***************************************************************************)
EXTENDS Integers, Sequences, FiniteSets, TLC

VARIABLES qc_reference_db, dbdir, fs, op, inp, res, fin

vars == <<qc_reference_db, dbdir, fs, op, inp, res, fin>>

\* ---------------------------------------------------------------- bounds

\* Longest listing of the reference directory.
MaxDbs == 2
\* Longest forward / reverse file list.
MaxFiles == 2

\* -------------------------------------------------------- program constants

MEMORY == <<"16g">>
WALLTIME == <<"30:00:00">>
FINISH_MEMORY == <<"10g">>
FINISH_WALLTIME == <<"10:00:00">>
MAX_RUNNING == 8

\* ------------------------------------------------------------ string helpers

NL == "\n"

RECURSIVE Flatten(_)
Flatten(ss) == IF ss = <<>> THEN <<>> ELSE Head(ss) \o Flatten(Tail(ss))

\* sep.join(parts)
RECURSIVE Join(_, _)
Join(sep, parts) ==
    IF parts = <<>> THEN <<>>
    ELSE IF Len(parts) = 1 THEN parts[1]
    ELSE parts[1] \o sep \o Join(sep, Tail(parts))

\* str(n) for n >= 0, one atom per decimal digit
Digit(d) == CASE d = 0 -> "0" [] d = 1 -> "1" [] d = 2 -> "2" [] d = 3 -> "3"
              [] d = 4 -> "4" [] d = 5 -> "5" [] d = 6 -> "6" [] d = 7 -> "7"
              [] d = 8 -> "8" [] d = 9 -> "9"

RECURSIVE StrInt(_)
StrInt(n) == IF n < 10 THEN <<Digit(n)>>
             ELSE StrInt(n \div 10) \o <<Digit(n % 10)>>

\* needle in hay
IsSubstring(needle, hay) ==
    \E i \in 0..(Len(hay) - Len(needle)) :
        \A j \in 1..Len(needle) : hay[i + j] = needle[j]

EndsWith(s, suffix) ==
    /\ Len(s) >= Len(suffix)
    /\ \A j \in 1..Len(suffix) : s[Len(s) - Len(suffix) + j] = suffix[j]

\* ord(c) of the characters the file names are made of
CodePoint(c) ==
    CASE c = "." -> 46 [] c = "/" -> 47 [] c = "1" -> 49 [] c = "2" -> 50
      [] c = "N" -> 78 [] c = "a" -> 97 [] c = "b" -> 98 [] c = "c" -> 99
      [] c = "d" -> 100 [] c = "e" -> 101 [] c = "i" -> 105 [] c = "j" -> 106
      [] c = "m" -> 109 [] c = "n" -> 110 [] c = "o" -> 111 [] c = "u" -> 117
      [] c = "x" -> 120
      [] OTHER -> 0

\* s < t as Python compares two str
RECURSIVE StrLess(_, _)
StrLess(s, t) ==
    IF t = <<>> THEN FALSE
    ELSE IF s = <<>> THEN TRUE
    ELSE IF CodePoint(Head(s)) # CodePoint(Head(t))
         THEN CodePoint(Head(s)) < CodePoint(Head(t))
    ELSE StrLess(Tail(s), Tail(t))

\* sorted(list of str)
sorted(l) == SortSeq(l, StrLess)

\* os.path.basename(p): what follows the last "/"
basename(p) ==
    IF p = <<>> THEN <<>>
    ELSE IF \E i \in 1..Len(p) : p[i] = "/"
         THEN LET i == CHOOSE k \in 1..Len(p) :
                           p[k] = "/" /\ \A m \in (k + 1)..Len(p) : p[m] # "/"
              IN SubSeq(p, i + 1, Len(p))
    ELSE p

\* os.path.join(a, b) on a POSIX host
join(a, b) ==
    IF b # <<>> /\ Head(b) = "/" THEN b
    ELSE IF a = <<>> \/ a[Len(a)] = "/" THEN a \o b
    ELSE a \o <<"/">> \o b

\* ------------------------------------------------------------------ templates

FASTP_BASE == <<"fastp -l 100 -i ", "%s", " -w ", "{nprocs}", " ">>
MINIMAP2_BASE ==
    <<"minimap2 -ax sr -t ", "{nprocs}", " ", "{database}", " - -a ">>
IVAR_TRIM_BASE ==
    <<"ivar trim -x ", "{nprocs}", " -e -b ", "{primer}", " -i ", "%s">>

IVAR_TRIM_CMD ==
    Join(<<" ">>, <<IVAR_TRIM_BASE, <<"-p ", "{out_dir}", "/", "%s">> >>)
FASTP_CMD ==
    Join(<<" ">>, <<FASTP_BASE, <<"-I ", "%s", " -o ", "{out_dir}", "/", "%s",
                                  " -O ", "{out_dir}", "/", "%s">> >>)
FASTP_CMD_SINGLE == FASTP_BASE \o <<" -o ", "{out_dir}", "/", "%s">>
COMBINED_CMD ==
    FASTP_BASE \o <<" -I ", "%s", " --stdout | ">> \o MINIMAP2_BASE
        \o <<" | ", "{out_dir}", "/", "%s", " -2 ", "{out_dir}", "/", "%s">>
COMBINED_CMD_SINGLE ==
    FASTP_BASE \o <<" --stdout | ">> \o MINIMAP2_BASE
        \o <<" | ", "{out_dir}", "/", "%s">>

Placeholders == {"{nprocs}", "{primer}", "{database}", "{out_dir}"}

\* template.format(**kw): every "{name}" atom becomes kw["{name}"]
Format(template, kw) ==
    Flatten([i \in 1..Len(template) |->
                IF template[i] \in DOMAIN kw THEN kw[template[i]]
                ELSE <<template[i]>>])

\* str.format raises KeyError for a field that no keyword names
FormatKeyError(template, kw) ==
    \E i \in 1..Len(template) :
        template[i] \in Placeholders /\ template[i] \notin DOMAIN kw

\* number of "%s" among the first i atoms
RECURSIVE CountPct(_, _)
CountPct(s, i) ==
    IF i = 0 THEN 0
    ELSE CountPct(s, i - 1) + (IF s[i] = "%s" THEN 1 ELSE 0)

\* the % operator raises TypeError unless the tuple has one value per "%s"
PercentTypeError(s, args) == CountPct(s, Len(s)) # Len(args)

\* s % args: the k-th "%s" becomes args[k]
Percent(s, args) ==
    Flatten([i \in 1..Len(s) |->
                IF s[i] = "%s" THEN args[CountPct(s, i)] ELSE <<s[i]>>])

\* ------------------------------------------------------- _generate_commands

NoErr == ""

Plan(err, commands, out_files) ==
    [err |-> err, commands |-> commands, out_files |-> out_files]

\* the (path, role) pair appended for one input file
OutFileEntry(out_dir, bam) == <<out_dir \o <<"/">> \o basename(bam), <<"trimmed">> >>

\* CommandFor with the input path where the output name belongs
CommandForFullPath(command, bam) == Percent(command, <<bam, bam>>)

\* the command appended for one input file
CommandFor(command, bam) == Percent(command, <<bam, basename(bam)>>)

\* the template _generate_commands formats
SelectedTemplate == IVAR_TRIM_CMD

_generate_commands(bam_file, primer, nprocs, out_dir) ==
    LET cmd == SelectedTemplate
        kw == [k \in {"{nprocs}", "{primer}", "{out_dir}"} |->
                  CASE k = "{nprocs}" -> StrInt(nprocs)
                    [] k = "{primer}" -> primer
                    [] k = "{out_dir}" -> out_dir]
        command == Format(cmd, kw)
    IN IF FormatKeyError(cmd, kw) THEN Plan("KeyError", <<>>, <<>>)
       ELSE IF bam_file # <<>> /\ PercentTypeError(command, <<1, 2>>)
            THEN Plan("TypeError", <<>>, <<>>)
       ELSE Plan(NoErr,
                 [i \in 1..Len(bam_file) |-> CommandFor(command, bam_file[i])],
                 [i \in 1..Len(bam_file) |-> OutFileEntry(out_dir, bam_file[i])])

\* number of positional parameters of def _generate_commands
GenerateCommandsArity == 4

\* a call _generate_commands(*args): Python binds the positional arguments to
\* the parameters and raises TypeError when their number is not the arity
Call_generate_commands(args) ==
    IF Len(args) # GenerateCommandsArity THEN Plan("TypeError", <<>>, <<>>)
    ELSE _generate_commands(args[1], args[2], args[3], args[4])

\* ------------------------------------------------------------- get_dbs_list

\* glob's match of '*.bed' against one directory entry: the suffix, and no
\* leading dot (fnmatch's "*" never matches a hidden file)
GlobBed(name) ==
    /\ EndsWith(name, <<".", "b", "e", "d">>)
    /\ Head(name) # "."

\* get_dbs_list(): the basenames of folder/*.bed, in the listing's order
get_dbs_list(folder, listing) ==
    LET hits == SelectSeq(listing, GlobBed)
    IN [i \in 1..Len(hits) |-> basename(folder \o <<"/">> \o hits[i])]

\* ---------------------------------------------------- fastp_minimap2_to_array

PyNone == [none |-> TRUE, path |-> <<>>]
Some(p) == [none |-> FALSE, path |-> p]

NoneStr == <<"N", "o", "n", "e">>

\* RefMatch with == in place of `in`
RefMatchExact(reference, db) == reference = db

\* the condition of the comprehension: params['reference'] in db
RefMatch(reference, db) == IsSubstring(reference, db)

\* [join(QC_REFERENCE_DB, db) for db in get_dbs_list() if reference in db]
RefCandidates(folder, listing, reference) ==
    LET dbs == get_dbs_list(folder, listing)
        hits == SelectSeq(dbs, LAMBDA db : RefMatch(reference, db))
    IN [i \in 1..Len(hits) |-> join(folder, hits[i])]

\* lines 127-131: the error raised ("" for none) and the database chosen
ResolveReference(folder, listing, reference) ==
    IF reference = NoneStr THEN [err |-> NoErr, database |-> PyNone]
    ELSE LET c == RefCandidates(folder, listing, reference)
         IN IF c = <<>> THEN [err |-> "IndexError", database |-> PyNone]
            ELSE [err |-> NoErr, database |-> Some(c[1])]

\* PrepInfoError without the run_prefix test
PrepInfoErrorUnchecked(columns) ==
    IF "sample_name" \notin columns THEN "KeyError" ELSE NoErr

\* lines 139-143: reading the preparation table, given its columns
PrepInfoError(columns) ==
    IF "sample_name" \notin columns THEN "KeyError"
    ELSE IF "run_prefix" \notin (columns \ {"sample_name"}) THEN "ValueError"
    ELSE NoErr

\* open(path, 'w').write(content)
WriteFile(files, path, content) ==
    [p \in (DOMAIN files) \cup {path} |->
        IF p = path THEN content ELSE files[p]]

DetailsName(out_dir) == join(out_dir, <<"fastp_minimap2.array-details">>)
MainQsubFp(out_dir, job_id) == join(out_dir, job_id \o <<".qsub">>)
FinishQsubFp(out_dir, job_id) == join(out_dir, job_id \o <<".finish.qsub">>)
OutFilesFp(out_dir, job_id) == join(out_dir, job_id \o <<".out_files.tsv">>)

\* lines 159-180
MainLines(out_dir, job_id, threads, environment, n_jobs) ==
    << <<"#!/bin/bash">>,
       <<"#PBS -M qiita.help@gmail.com">>,
       <<"#PBS -N ">> \o job_id,
       <<"#PBS -l nodes=1:ppn=">> \o StrInt(threads),
       <<"#PBS -l walltime=">> \o WALLTIME,
       <<"#PBS -l mem=">> \o MEMORY,
       <<"#PBS -o ">> \o out_dir \o <<"/">> \o job_id \o <<"_${PBS_ARRAYID}.log">>,
       <<"#PBS -e ">> \o out_dir \o <<"/">> \o job_id \o <<"_${PBS_ARRAYID}.err">>,
       <<"#PBS -t 1-">> \o StrInt(n_jobs) \o <<"%">> \o StrInt(MAX_RUNNING),
       <<"#PBS -l epilogue=/home/qiita/qiita-epilogue.sh">>,
       <<"set -e">>,
       <<"cd ">> \o out_dir,
       environment,
       <<"date">>,
       <<"hostname">>,
       <<"echo ${PBS_JOBID} ${PBS_ARRAYID}">>,
       <<"offset=${PBS_ARRAYID}">>,
       <<"step=$(( $offset - 0 ))">>,
       <<"cmd=$(head -n $step ">> \o DetailsName(out_dir) \o <<" | tail -n 1)">>,
       <<"eval $cmd">>,
       <<"set +e">>,
       <<"date">> >>

\* lines 187-203
FinishLines(out_dir, job_id, environment, url) ==
    << <<"#!/bin/bash">>,
       <<"#PBS -M qiita.help@gmail.com">>,
       <<"#PBS -N finish-">> \o job_id,
       <<"#PBS -l nodes=1:ppn=1">>,
       <<"#PBS -l walltime=">> \o FINISH_WALLTIME,
       <<"#PBS -l mem=">> \o FINISH_MEMORY,
       <<"#PBS -o ">> \o out_dir \o <<"/finish-">> \o job_id \o <<".log">>,
       <<"#PBS -e ">> \o out_dir \o <<"/finish-">> \o job_id \o <<".err">>,
       <<"#PBS -l epilogue=/home/qiita/qiita-epilogue.sh">>,
       <<"set -e">>,
       <<"cd ">> \o out_dir,
       environment,
       <<"date">>,
       <<"hostname">>,
       <<"echo $PBS_JOBID">>,
       <<"finish_qp_fastp_minimap2 ">> \o url \o <<" ">> \o job_id \o <<" ">>
           \o out_dir \o <<NL, "date">> >>

\* line 211: one 'path<TAB>role' line per manifest entry
ManifestText(out_files) ==
    Join(<<NL>>, [i \in 1..Len(out_files) |->
                     out_files[i][1] \o <<"\t">> \o out_files[i][2]])

\* lines 151-213: the four files written and the paths returned
EmitScripts(files, p, commands, out_files) ==
    LET f1 == WriteFile(files, DetailsName(p.out_dir), Join(<<NL>>, commands))
        n_jobs == Len(commands)
        f2 == WriteFile(f1, MainQsubFp(p.out_dir, p.job_id),
                  Join(<<NL>>, MainLines(p.out_dir, p.job_id, p.threads,
                                         p.environment, n_jobs)) \o <<NL>>)
        f3 == WriteFile(f2, FinishQsubFp(p.out_dir, p.job_id),
                  Join(<<NL>>, FinishLines(p.out_dir, p.job_id,
                                           p.environment, p.url)) \o <<NL>>)
        f4 == WriteFile(f3, OutFilesFp(p.out_dir, p.job_id),
                  ManifestText(out_files))
    IN [fs |-> f4,
        ret |-> <<MainQsubFp(p.out_dir, p.job_id),
                  FinishQsubFp(p.out_dir, p.job_id),
                  OutFilesFp(p.out_dir, p.job_id)>>]

Outcome(err, database, commands, out_files, files, ret) ==
    [err |-> err, database |-> database, commands |-> commands,
     out_files |-> out_files, fs |-> files, ret |-> ret]

\* the positional arguments of the call at lines 148-149
PlanCallArgs(fwd_seqs, rev_seqs, database, threads, out_dir) ==
    <<fwd_seqs, rev_seqs, database, threads, out_dir>>

\* fastp_minimap2_to_array(files, out_dir, params, prep_info, url, job_id):
\* p carries the arguments, files the content of out_dir before the call
fastp_minimap2_to_array(folder, listing, files, p) ==
    LET ref == ResolveReference(folder, listing, p.reference)
        fwd_err == IF p.has_fwd THEN NoErr ELSE "KeyError"
        fwd_seqs == sorted(p.fwd)
        rev_seqs == IF p.has_rev THEN sorted(p.rev) ELSE <<>>
        prep == PrepInfoError(p.columns)
        plan == Call_generate_commands(
                    PlanCallArgs(fwd_seqs, rev_seqs, ref.database, p.threads,
                                 p.out_dir))
    IN IF ref.err # NoErr
       THEN Outcome(ref.err, PyNone, <<>>, <<>>, files, <<>>)
       ELSE IF fwd_err # NoErr
       THEN Outcome(fwd_err, ref.database, <<>>, <<>>, files, <<>>)
       ELSE IF prep # NoErr
       THEN Outcome(prep, ref.database, <<>>, <<>>, files, <<>>)
       ELSE IF plan.err # NoErr
       THEN Outcome(plan.err, ref.database, <<>>, <<>>, files, <<>>)
       ELSE LET e == EmitScripts(files, p, plan.commands, plan.out_files)
            IN Outcome(NoErr, ref.database, plan.commands, plan.out_files,
                       e.fs, e.ret)

\* ------------------------------------------------ the emitted array job, run

\* the lines of a text as head, tail and readlines see them: split at "\n",
\* a last line needs no newline after it
RECURSIVE SplitLines(_)
SplitLines(text) ==
    IF text = <<>> THEN <<>>
    ELSE IF \E i \in 1..Len(text) : text[i] = NL
         THEN LET i == CHOOSE k \in 1..Len(text) :
                           text[k] = NL /\ \A m \in 1..(k - 1) : text[m] # NL
              IN <<SubSeq(text, 1, i - 1)>>
                     \o SplitLines(SubSeq(text, i + 1, Len(text)))
    ELSE <<text>>

\* int(digits), most significant digit first
RECURSIVE ParseInt(_)
ParseInt(digits) ==
    IF digits = <<>> THEN 0
    ELSE 10 * ParseInt(SubSeq(digits, 1, Len(digits) - 1))
           + (CHOOSE d \in 0..9 : Digit(d) = digits[Len(digits)])

\* the task indices of '#PBS -t 1-<n>%<max>' in the array script
ArrayRange(script) ==
    LET i == CHOOSE k \in 1..Len(script) : script[k] = "#PBS -t 1-"
        j == CHOOSE k \in (i + 1)..Len(script) :
                 script[k] = "%" /\ \A m \in (i + 1)..(k - 1) : script[m] # "%"
    IN 1..ParseInt(SubSeq(script, i + 1, j - 1))

\* cmd=$(head -n $step details | tail -n 1) with offset = step = array index:
\* the lines head lets through, and the last of them
TaskCommand(details, k) ==
    LET lines == SplitLines(details)
        head == SubSeq(lines, 1, IF k < Len(lines) THEN k ELSE Len(lines))
    IN IF head = <<>> THEN <<>> ELSE head[Len(head)]

\* the number of times a run of a script starts the callback program: its
\* lines that are a finish_qp_fastp_minimap2 command
CallbackInvocations(script) ==
    LET lines == SplitLines(script)
    IN Cardinality({ i \in 1..Len(lines) :
                       lines[i] # <<>>
                         /\ lines[i][1] = "finish_qp_fastp_minimap2 " })

\* the arguments the callback program is started with, line by line
CallbackArguments(script) ==
    LET lines == SplitLines(script)
        hits == SelectSeq(lines, LAMBDA l :
                    l # <<>> /\ l[1] = "finish_qp_fastp_minimap2 ")
    IN [i \in 1..Len(hits) |-> Tail(hits[i])]

\* ----------------------------------------------------------- fastp_minimap2

\* the characters str.split() splits at
IsSpace(a) == a \in {" ", "\t", NL}

\* line.split(): the runs of non-space atoms of the line
RECURSIVE SplitFields(_)
SplitFields(line) ==
    IF line = <<>> THEN <<>>
    ELSE IF IsSpace(Head(line)) THEN SplitFields(Tail(line))
    ELSE IF \E i \in 1..Len(line) : IsSpace(line[i])
         THEN LET i == CHOOSE k \in 1..Len(line) :
                           IsSpace(line[k]) /\ \A m \in 1..(k - 1) : ~IsSpace(line[m])
              IN <<SubSeq(line, 1, i - 1)>>
                     \o SplitFields(SubSeq(line, i + 1, Len(line)))
    ELSE <<line>>

\* lines 92-94: fp, ft = line.split() for every line of the manifest
ReadManifest(text) ==
    LET lines == SplitLines(text)
        fields == [i \in 1..Len(lines) |-> SplitFields(lines[i])]
    IN IF \E i \in 1..Len(lines) : Len(fields[i]) # 2
       THEN [err |-> "ValueError", out_files |-> <<>>]
       ELSE [err |-> NoErr,
             out_files |-> [i \in 1..Len(lines) |-> <<fields[i][1], fields[i][2]>>]]

\* ArtifactInfo(name, artifact_type, files)
ArtifactInfo(name, artifact_type, files) ==
    [name |-> name, artifact_type |-> artifact_type, files |-> files]

Finished(err, ok, ainfo, msg, steps) ==
    [err |-> err, ok |-> ok, ainfo |-> ainfo, msg |-> msg, steps |-> steps]

NotFinished == Finished(NoErr, FALSE, <<>>, "", <<>>)

Step3 == "Step 3 of 4: Finishing fastp and minimap2"
Step4 == "Step 4 of 4: Generating new artifact"

\* fastp_minimap2(qclient, job_id, parameters, out_dir), files the content of
\* out_dir: the exception raised or the (bool, list, str) returned, and the
\* job steps reported to qclient
fastp_minimap2(files, job_id, out_dir) ==
    LET path == out_dir \o <<"/">> \o job_id \o <<".out_files.tsv">>
    IN IF path \notin DOMAIN files
       THEN Finished("FileNotFoundError", FALSE, <<>>, "", <<Step3>>)
       ELSE LET m == ReadManifest(files[path])
            IN IF m.err # NoErr
               THEN Finished(m.err, FALSE, <<>>, "", <<Step3>>)
               ELSE Finished(NoErr, TRUE,
                             <<ArtifactInfo("Filtered files", "per_sample_FASTQ",
                                            m.out_files)>>,
                             "", <<Step3, Step4>>)

\* ------------------------------------------------------------------- inputs

\* the values of the QC_REFERENCE_DB environment variable
Folders == { <<"/", "d", "b">>, <<"/", "d", "b", "/">> }

\* the files the reference directory may hold
DirNames == { <<"a", ".", "b", "e", "d">>,
              <<"a", "b", ".", "b", "e", "d">>,
              <<"c", ".", "b", "e", "d">>,
              <<"a", ".", "m", "m", "i">> }

\* the values of params['reference']
References == { NoneStr, <<"a">>, <<"a", "b">>, <<"x">>, <<"b", "e", "d">> }

FwdPaths == { <<"/", "i", "/", "a", "1">>, <<"/", "i", "/", "b", "1">> }
RevPaths == { <<"/", "i", "/", "a", "2">>, <<"/", "i", "/", "b", "2">> }

\* the columns the preparation table may have, beside others
ColumnSets == SUBSET {"sample_name", "run_prefix"}

OutDir == <<"/", "o">>
JobId == <<"j">>
Url == <<"u">>
Environment == <<"source ~/.bash_profile">>
Primer == <<"/", "i", "/", "p">>
Threads == {2, 16}

\* the lists of at most n distinct members of S
Lists(S, n) ==
    UNION { { l \in [1..k -> S] : \A i, j \in 1..k : i # j => l[i] # l[j] }
            : k \in 0..n }

EmptyFs == [q \in {} |-> <<>>]

\* out_dir before the first call: empty, or holding a manifest left there,
\* or a manifest cut short after a path
InitialFs ==
    { EmptyFs,
      WriteFile(EmptyFs, OutFilesFp(OutDir, JobId),
                ManifestText(<< <<OutDir \o <<"/", "a", "1">>, <<"trimmed">> >> >>)),
      WriteFile(EmptyFs, OutFilesFp(OutDir, JobId),
                ManifestText(<< <<OutDir \o <<"/", "a", "1">>, <<"trimmed">> >>,
                                <<OutDir \o <<"/", "b", "1">>, <<>> >> >>)) }

Params(fwd, rev, has_rev, reference, threads, columns) ==
    [fwd |-> fwd, has_fwd |-> TRUE,
     rev |-> rev, has_rev |-> has_rev, reference |-> reference,
     threads |-> threads, columns |-> columns, primer |-> <<>>,
     database |-> PyNone, nargs |-> 6,
     out_dir |-> OutDir, job_id |-> JobId, url |-> Url,
     environment |-> Environment]

NoInput == Params(<<>>, <<>>, FALSE, NoneStr, 0, {})

Result(err, database, commands, out_files, ret, dbs) ==
    [err |-> err, database |-> database, commands |-> commands,
     out_files |-> out_files, ret |-> ret, dbs |-> dbs]

NoResult == Result(NoErr, PyNone, <<>>, <<>>, <<>>, <<>>)

\* ------------------------------------------------------------ state machine

Init ==
    /\ qc_reference_db \in Folders
    /\ dbdir \in Lists(DirNames, MaxDbs)
    /\ fs \in InitialFs
    /\ op = "idle"
    /\ inp = NoInput
    /\ res = NoResult
    /\ fin = NotFinished

\* a call of fastp_minimap2_to_array
ToArray ==
    \E fwd \in Lists(FwdPaths, MaxFiles), rev \in Lists(RevPaths, MaxFiles),
       has_fwd \in BOOLEAN, has_rev \in BOOLEAN,
       reference \in References, columns \in ColumnSets :
        LET p == [Params(fwd, rev, has_rev, reference, 2, columns)
                     EXCEPT !.has_fwd = has_fwd]
            o == fastp_minimap2_to_array(qc_reference_db, dbdir, fs, p)
        IN /\ op = "idle"
           /\ has_fwd \/ fwd = <<>>
           /\ has_rev \/ rev = <<>>
           /\ op' = "fastp_minimap2_to_array"
           /\ inp' = p
           /\ res' = Result(o.err, o.database, o.commands, o.out_files, o.ret, <<>>)
           /\ fs' = o.fs
           /\ UNCHANGED <<qc_reference_db, dbdir, fin>>

\* the call _generate_commands(fwd_seqs, rev_seqs, database, nprocs, out_dir)
\* that fastp_minimap2_to_array and test_generate_commands make
BuildPlan ==
    \E fwd \in Lists(FwdPaths, MaxFiles), rev \in Lists(RevPaths, MaxFiles),
       database \in {PyNone, Some(join(qc_reference_db, <<"a", ".", "b", "e", "d">>))},
       nprocs \in Threads :
        LET o == Call_generate_commands(
                     PlanCallArgs(fwd, rev, database, nprocs, OutDir))
        IN /\ op = "idle"
           /\ op' = "build_plan"
           /\ inp' = [Params(fwd, rev, rev # <<>>, NoneStr, nprocs, {})
                         EXCEPT !.database = database, !.nargs = 5]
           /\ res' = Result(o.err, database, o.commands, o.out_files, <<>>, <<>>)
           /\ UNCHANGED <<qc_reference_db, dbdir, fs, fin>>

\* the call _generate_commands(bam_file, primer, nprocs, out_dir)
GenerateCommands ==
    \E bam_file \in Lists(FwdPaths \cup RevPaths, MaxFiles), nprocs \in Threads :
        LET o == Call_generate_commands(<<bam_file, Primer, nprocs, OutDir>>)
        IN /\ op = "idle"
           /\ op' = "_generate_commands"
           /\ inp' = [Params(bam_file, <<>>, FALSE, NoneStr, nprocs, {})
                         EXCEPT !.primer = Primer, !.nargs = 4]
           /\ res' = Result(o.err, PyNone, o.commands, o.out_files, <<>>, <<>>)
           /\ UNCHANGED <<qc_reference_db, dbdir, fs, fin>>

\* a call of get_dbs_list
GetDbsList ==
    /\ op = "idle"
    /\ op' = "get_dbs_list"
    /\ inp' = NoInput
    /\ res' = Result(NoErr, PyNone, <<>>, <<>>, <<>>,
                     get_dbs_list(qc_reference_db, dbdir))
    /\ UNCHANGED <<qc_reference_db, dbdir, fs, fin>>

\* the call has returned or raised; the caller is ready for the next one
Return ==
    /\ op # "idle"
    /\ op' = "idle"
    /\ inp' = NoInput
    /\ res' = NoResult
    /\ fin' = NotFinished
    /\ UNCHANGED <<qc_reference_db, dbdir, fs>>

\* a call of fastp_minimap2 for the job, first or after the call of
\* fastp_minimap2_to_array for it
Finish ==
    /\ op \in {"idle", "fastp_minimap2_to_array"}
    /\ op' = "fastp_minimap2"
    /\ fin' = fastp_minimap2(fs, JobId, OutDir)
    /\ UNCHANGED <<qc_reference_db, dbdir, fs, inp, res>>

Next ==
    ToArray \/ BuildPlan \/ GenerateCommands \/ GetDbsList \/ Finish \/ Return

Spec == Init /\ [][Next]_vars

\* ------------------------------------------------------------------- claims

\* the catalog entries the reference of the call names: the directory entries
\* that are *.bed files and contain the reference as a substring
MatchingEntries(listing, reference) ==
    { i \in 1..Len(listing) :
        /\ EndsWith(listing[i], <<".", "b", "e", "d">>)
        /\ Head(listing[i]) # "."
        /\ IsSubstring(reference, listing[i]) }

\* the input of a fastp_minimap2_to_array call is valid: forward files, the
\* reverse list absent or as long, run_prefix present, reference resolvable
ValidInput ==
    /\ inp.has_fwd /\ inp.fwd # <<>>
    /\ ~inp.has_rev \/ Len(inp.rev) = Len(inp.fwd)
    /\ {"sample_name", "run_prefix"} \subseteq inp.columns
    /\ inp.reference = NoneStr \/ MatchingEntries(dbdir, inp.reference) # {}

\* the input of a plan call is valid: forward files, reverse none or as many
ValidPlanInput ==
    /\ inp.fwd # <<>>
    /\ inp.rev = <<>> \/ Len(inp.rev) = Len(inp.fwd)

DetailsWritten == DetailsName(inp.out_dir) \in DOMAIN fs
MainWritten == MainQsubFp(inp.out_dir, inp.job_id) \in DOMAIN fs
FinishWritten == FinishQsubFp(inp.out_dir, inp.job_id) \in DOMAIN fs
ManifestWritten == OutFilesFp(inp.out_dir, inp.job_id) \in DOMAIN fs

\* C1: a fastp_minimap2_to_array call on valid input does not raise, leaves
\* the details file, the array script, the finishing script and the manifest
\* in out_dir and returns the paths <job_id>.qsub, <job_id>.finish.qsub and
\* <job_id>.out_files.tsv of out_dir, in that order.
C1_ValidCallWritesAndReturns ==
    (op = "fastp_minimap2_to_array" /\ ValidInput) =>
        /\ res.err = NoErr
        /\ DetailsWritten /\ MainWritten /\ FinishWritten /\ ManifestWritten
        /\ res.ret = << OutDir \o <<"/">> \o JobId \o <<".qsub">>,
                        OutDir \o <<"/">> \o JobId \o <<".finish.qsub">>,
                        OutDir \o <<"/">> \o JobId \o <<".out_files.tsv">> >>

\* the case of C1: a call on valid input, paired, with a resolved reference
C1_Case ==
    /\ op = "fastp_minimap2_to_array" /\ ValidInput
    /\ inp.has_rev /\ Len(inp.fwd) = 2 /\ inp.reference # NoneStr

\* C2: the plan call emits one command per sample: with n >= 1 forward files
\* and the reverse list empty or of length n, it returns n commands.
C2_OneCommandPerSample ==
    (op = "build_plan" /\ ValidPlanInput) =>
        /\ res.err = NoErr
        /\ Len(res.commands) = Len(inp.fwd)

\* the case of C2: a plan call for two paired samples
C2_Case == op = "build_plan" /\ Len(inp.fwd) = 2 /\ Len(inp.rev) = 2

\* the template the two flags select, as C3 tabulates it
ClaimedTemplate(has_reverse, has_reference) ==
    IF has_reverse
    THEN (IF has_reference THEN COMBINED_CMD ELSE FASTP_CMD)
    ELSE (IF has_reference THEN COMBINED_CMD_SINGLE ELSE FASTP_CMD_SINGLE)

\* command i of a plan made from that template
ClaimedCommand(i) ==
    LET kw == [k \in {"{nprocs}", "{database}", "{out_dir}"} |->
                  CASE k = "{nprocs}" -> StrInt(inp.threads)
                    [] k = "{database}" ->
                         (IF inp.database.none THEN NoneStr ELSE inp.database.path)
                    [] k = "{out_dir}" -> inp.out_dir]
        command == Format(ClaimedTemplate(inp.rev # <<>>, ~inp.database.none), kw)
    IN IF inp.rev # <<>>
       THEN Percent(command, <<inp.fwd[i], inp.rev[i],
                               basename(inp.fwd[i]), basename(inp.rev[i])>>)
       ELSE Percent(command, <<inp.fwd[i], basename(inp.fwd[i])>>)

\* C3: the two flags (reverse list non-empty, reference given) choose the
\* template, COMBINED_CMD, FASTP_CMD, COMBINED_CMD_SINGLE or FASTP_CMD_SINGLE,
\* and every command of the plan is that template filled in for its sample.
C3_TemplateChosenByFlags ==
    (op = "build_plan" /\ ValidPlanInput) =>
        /\ res.err = NoErr
        /\ Len(res.commands) = Len(inp.fwd)
        /\ \A i \in 1..Len(res.commands) : res.commands[i] = ClaimedCommand(i)

\* the case of C3: a single-end plan call with a reference
C3_Case ==
    op = "build_plan" /\ inp.fwd # <<>> /\ inp.rev = <<>> /\ ~inp.database.none

RoleCount(out_files, role) ==
    Cardinality({ i \in 1..Len(out_files) : out_files[i][2] = <<role>> })

NamesOutputOf(entry, files) ==
    \E i \in 1..Len(files) : entry[1] = inp.out_dir \o <<"/">> \o basename(files[i])

\* C4: the manifest of a plan for n paired samples has 2n entries, n of role
\* raw_forward_seqs and n of role raw_reverse_seqs; for n single-end samples it
\* has n entries, all of role raw_forward_seqs; each path is out_dir/<input
\* file name>.
C4_ManifestEntryPerOutput ==
    (op = "build_plan" /\ ValidPlanInput) =>
        /\ res.err = NoErr
        /\ Len(res.out_files) = Len(inp.fwd) + Len(inp.rev)
        /\ RoleCount(res.out_files, "raw_forward_seqs") = Len(inp.fwd)
        /\ RoleCount(res.out_files, "raw_reverse_seqs") = Len(inp.rev)
        /\ \A i \in 1..Len(res.out_files) :
               NamesOutputOf(res.out_files[i], inp.fwd \o inp.rev)

\* the case of C4: a plan call for single-end samples
C4_Case == op = "build_plan" /\ Len(inp.fwd) = 2 /\ inp.rev = <<>>

\* C5: the manifest of a paired plan is grouped by role: the forward-role
\* entries in sample order, then the reverse-role entries in sample order.
C5_ManifestGroupedByRole ==
    (op = "build_plan" /\ ValidPlanInput /\ inp.rev # <<>>) =>
        /\ res.err = NoErr
        /\ res.out_files =
             [i \in 1..Len(inp.fwd) |->
                 <<inp.out_dir \o <<"/">> \o basename(inp.fwd[i]),
                   <<"raw_forward_seqs">> >>]
             \o [i \in 1..Len(inp.rev) |->
                 <<inp.out_dir \o <<"/">> \o basename(inp.rev[i]),
                   <<"raw_reverse_seqs">> >>]

\* the case of C5: a paired plan call without a reference
C5_Case ==
    op = "build_plan" /\ Len(inp.fwd) = 2 /\ Len(inp.rev) = 2 /\ inp.database.none

\* the reverse list is given and not as long as the forward list
MismatchedLengths == inp.rev # <<>> /\ Len(inp.rev) # Len(inp.fwd)

\* C6: with a non-empty reverse list whose length differs from the forward
\* list's, planning fails with a configuration error (the ValueError the code
\* raises for its other configuration error) and emits no commands, no
\* manifest and no files.
C6_MismatchedLengthsRejected ==
    /\ (op = "build_plan" /\ MismatchedLengths) =>
           res.err = "ValueError" /\ res.commands = <<>> /\ res.out_files = <<>>
    /\ (op = "fastp_minimap2_to_array" /\ MismatchedLengths /\ inp.has_fwd
          /\ {"sample_name", "run_prefix"} \subseteq inp.columns
          /\ (inp.reference = NoneStr \/ MatchingEntries(dbdir, inp.reference) # {})) =>
           /\ res.err = "ValueError"
           /\ res.commands = <<>> /\ res.out_files = <<>>
           /\ ~DetailsWritten /\ ~MainWritten /\ ~FinishWritten

\* the case of C6: two forward files and one reverse file
C6_Case ==
    /\ op = "fastp_minimap2_to_array" /\ Len(inp.fwd) = 2 /\ Len(inp.rev) = 1
    /\ {"sample_name", "run_prefix"} \subseteq inp.columns
    /\ inp.reference = NoneStr

\* the call that a step makes is a fastp_minimap2_to_array call with a
\* reference to look up
LookupStep == op' = "fastp_minimap2_to_array" /\ inp'.reference # NoneStr

\* C7: when the reference is not 'None' and matches no entry of the catalog,
\* fastp_minimap2_to_array raises (the IndexError of the lookup) and out_dir is
\* left as it was; when it matches exactly one entry, the database is
\* QC_REFERENCE_DB joined with that entry's name.
C7_ReferenceLookup ==
    [][ LookupStep =>
          LET m == MatchingEntries(dbdir, inp'.reference)
          IN /\ m = {} =>
                  /\ res'.err = "IndexError"
                  /\ res'.database = PyNone
                  /\ res'.ret = <<>>
                  /\ fs' = fs
             /\ Cardinality(m) = 1 =>
                  \A i \in m :
                     res'.database =
                        Some(IF qc_reference_db[Len(qc_reference_db)] = "/"
                             THEN qc_reference_db \o dbdir[i]
                             ELSE qc_reference_db \o <<"/">> \o dbdir[i]) ]_vars

\* the case of C7: the reference is a proper substring of exactly one of two
\* catalog entries, and that entry was resolved
C7_Case ==
    /\ op = "fastp_minimap2_to_array" /\ inp.reference = <<"a">>
    /\ Len(get_dbs_list(qc_reference_db, dbdir)) = 2
    /\ Cardinality(MatchingEntries(dbdir, inp.reference)) = 1
    /\ ~res.database.none

\* C8: when the reference is a substring of more than one catalog entry the
\* lookup fails: the call raises, no database is selected and no script is
\* written.
C8_AmbiguousReferenceFails ==
    (/\ op = "fastp_minimap2_to_array" /\ inp.reference # NoneStr
     /\ Cardinality(MatchingEntries(dbdir, inp.reference)) > 1) =>
        /\ res.err # NoErr
        /\ res.database = PyNone
        /\ ~MainWritten /\ ~FinishWritten

\* the case of C8: two catalog entries contain the reference
C8_Case ==
    /\ op = "fastp_minimap2_to_array" /\ inp.reference = <<"a">>
    /\ Cardinality(MatchingEntries(dbdir, inp.reference)) = 2

\* a step is a fastp_minimap2_to_array call on a table without run_prefix
NoRunPrefixStep ==
    op' = "fastp_minimap2_to_array" /\ "run_prefix" \notin inp'.columns

\* C9, as stated: whenever the preparation table has no run_prefix column,
\* fastp_minimap2_to_array raises ValueError and creates or modifies no file.
C9_AsStated ==
    [][ NoRunPrefixStep => (res'.err = "ValueError" /\ fs' = fs) ]_vars

\* C9, amended: when the preparation table has a sample_name column and no
\* run_prefix column, the files have a raw_forward_seqs entry and the
\* reference is 'None' or matches a catalog entry, fastp_minimap2_to_array
\* raises ValueError and creates or modifies no file of out_dir.
C9_MissingRunPrefix ==
    [][ (/\ NoRunPrefixStep
         /\ "sample_name" \in inp'.columns
         /\ inp'.has_fwd
         /\ (inp'.reference = NoneStr
               \/ MatchingEntries(dbdir, inp'.reference) # {}))
        => (res'.err = "ValueError" /\ res'.ret = <<>> /\ fs' = fs) ]_vars

\* the case of C9: a call with forward and reverse files and a resolvable
\* reference on a table that has sample_name only, ended by ValueError with
\* the manifest out_dir already held still there
C9_Case ==
    /\ op = "fastp_minimap2_to_array" /\ inp.columns = {"sample_name"}
    /\ Len(inp.fwd) = 2 /\ Len(inp.rev) = 2
    /\ inp.reference = <<"a">> /\ MatchingEntries(dbdir, inp.reference) # {}
    /\ res.err = "ValueError"
    /\ ManifestWritten /\ ~DetailsWritten

\* C10: after a call on valid input with n samples the details file holds the
\* n commands, command i on line i, the array script's range is 1..n, and the
\* task of index k runs line k.
C10_ArrayCoversCommands ==
    (op = "fastp_minimap2_to_array" /\ ValidInput) =>
        /\ DetailsWritten /\ MainWritten
        /\ LET details == fs[DetailsName(inp.out_dir)]
               n == Len(res.commands)
           IN /\ n = Len(inp.fwd)
              /\ SplitLines(details) = res.commands
              /\ ArrayRange(fs[MainQsubFp(inp.out_dir, inp.job_id)]) = 1..n
              /\ \A k \in 1..n : TaskCommand(details, k) = res.commands[k]

\* the case of C10: a call on valid single-end input of two samples
C10_Case ==
    /\ op = "fastp_minimap2_to_array" /\ ValidInput
    /\ ~inp.has_rev /\ Len(inp.fwd) = 2

\* C11: after a call on valid input there is an array job and a finishing job
\* to run after it; a run of the finishing job starts finish_qp_fastp_minimap2
\* exactly once, with the callback URL, the job id and the output directory,
\* and no task of the array job starts it.
C11_CallbackOnceAfterArray ==
    (op = "fastp_minimap2_to_array" /\ ValidInput) =>
        /\ MainWritten /\ FinishWritten
        /\ CallbackInvocations(fs[FinishQsubFp(inp.out_dir, inp.job_id)]) = 1
        /\ CallbackArguments(fs[FinishQsubFp(inp.out_dir, inp.job_id)]) =
               << inp.url \o <<" ">> \o inp.job_id \o <<" ">> \o inp.out_dir >>
        /\ CallbackInvocations(fs[MainQsubFp(inp.out_dir, inp.job_id)]) = 0

\* the case of C11: a call on valid paired input without a reference
C11_Case ==
    /\ op = "fastp_minimap2_to_array" /\ ValidInput
    /\ inp.has_rev /\ Len(inp.fwd) = 1 /\ inp.reference = NoneStr

\* a step is the fastp_minimap2 call that follows a fastp_minimap2_to_array
\* call on valid input, for the same job_id and out_dir
ReadBackStep ==
    op = "fastp_minimap2_to_array" /\ ValidInput /\ op' = "fastp_minimap2"

\* C12: the manifest round trip: fastp_minimap2_to_array on valid input writes
\* its manifest to out_dir/<job_id>.out_files.tsv, and the fastp_minimap2 call
\* that follows returns (True, [one per_sample_FASTQ artifact whose files are
\* that manifest, entry for entry and in order], "").
C12_ManifestRoundTrip ==
    [][ ReadBackStep =>
          /\ res.err = NoErr
          /\ fin'.err = NoErr
          /\ fin'.ok /\ fin'.msg = ""
          /\ Len(fin'.ainfo) = 1
          /\ fin'.ainfo[1].artifact_type = "per_sample_FASTQ"
          /\ fin'.ainfo[1].files = res.out_files ]_vars

\* the case of C12: fastp_minimap2 has run after a call on valid input for
\* two samples
C12_Case ==
    /\ op = "fastp_minimap2" /\ ValidInput /\ Len(inp.fwd) = 2
    /\ fin # NotFinished

\* the file name of a path: its longest suffix without "/"
LastName(file) ==
    CHOOSE t \in { SubSeq(file, k, Len(file)) : k \in 1..(Len(file) + 1) } :
        /\ \A j \in 1..Len(t) : t[j] # "/"
        /\ Len(t) = Len(file) \/ file[Len(file) - Len(t)] = "/"

\* a step is a call _generate_commands(bam_file, primer, nprocs, out_dir)
GenerateStep == op' = "_generate_commands"

\* C13: _generate_commands returns, for its n input files, n commands and n
\* manifest entries in the order of the input: command i is the ivar trim
\* command that reads file i and writes to out_dir/<name of file i>, manifest
\* entry i is (out_dir/<name of file i>, 'trimmed'); the call changes no file
\* and nothing else outside its result.
C13_CommandsAlignedWithInput ==
    [][ GenerateStep =>
          LET files == inp'.fwd
              n == Len(files)
          IN /\ res'.err = NoErr
             /\ Len(res'.commands) = n
             /\ Len(res'.out_files) = n
             /\ \A i \in 1..n :
                   /\ res'.commands[i] =
                          <<"ivar trim -x ">> \o StrInt(inp'.threads)
                             \o <<" -e -b ">> \o inp'.primer
                             \o <<" -i ">> \o files[i]
                             \o <<" ", "-p ">> \o inp'.out_dir \o <<"/">>
                             \o LastName(files[i])
                   /\ res'.out_files[i] =
                          << inp'.out_dir \o <<"/">> \o LastName(files[i]),
                             <<"trimmed">> >>
             /\ fs' = fs /\ dbdir' = dbdir /\ qc_reference_db' = qc_reference_db
             /\ fin' = fin ]_vars

\* the case of C13: two input files given in descending order of name, with
\* sixteen threads, and their two commands returned
C13_Case ==
    /\ op = "_generate_commands" /\ inp.threads = 16
    /\ Len(inp.fwd) = 2 /\ StrLess(inp.fwd[2], inp.fwd[1])
    /\ Len(res.commands) = 2 /\ Len(res.out_files) = 2

====
